---- MODULE Spec2Model ----
(***************************************************************************)
(* Model of the download job engine of src/main.py: DownloadRunnable (the  *)
(* per-job worker), the QThreadPool admission of runnables, the queued     *)
(* signals from the workers to the GUI thread, and the MainWindow handlers *)
(* that keep the registry active_runnables and the queue table.            *)
(***************************************************************************)
EXTENDS Integers, Sequences, FiniteSets, TLC

\* ---------------------------------------------------------------- bounds
MaxJobs == 1          \* download jobs submitted in one behaviour
MaxFiles == 2         \* files the extractor writes, in one behaviour
MaxHooks == 2         \* progress-hook calls that emit, in one behaviour
MaxFaults == 1        \* calls into the environment that raise, in one behaviour
MaxClicks == 2        \* clicks on a Stop button, in one behaviour
SchedLag == 1         \* admission scenario: signals of a job awaiting the GUI thread

\* ------------------------------------------------------- program constants
MAX_CONCURRENT_DOWNLOADS == 3

SchedJobs == 2        \* admission scenario: jobs submitted
SchedThreads == 1     \* admission scenario: maxThreadCount of the pool
SchedEvents == 1      \* admission scenario: writes, hook calls, clicks, faults
SmallEvents == 1      \* small scenario: writes, hook calls, clicks, faults

Jobs == 1..(IF SchedJobs > MaxJobs THEN SchedJobs ELSE MaxJobs)
Names == 1..MaxFiles
AnalysisId == 0       \* pool id of the (single) AnalysisRunnable in flight
NoFile == 0           \* dest[n] = NoFile: no file of that name
PreExisting == -1     \* dest[n] = PreExisting: a file that was there before

VARIABLES
    scenario,          \* what the user and the environment do in this run
    pc,                \* position of each DownloadRunnable.run
    config,            \* DownloadJobConfig of each job (fields used here)
    is_cancelled,      \* DownloadRunnable._is_cancelled
    aborted,           \* _progress_hook raised DownloadError for this job
    failed,            \* an error ended the extractor's work on the job's URL
    injected,          \* _progress_hook wrote the overrides into info_dict
    evq,               \* signals of each job queued to the GUI thread
    sig_log,           \* every signal each job has emitted, in order
    early,             \* cancel() was called before "Downloading..."
    active_runnables,  \* MainWindow.active_runnables (key set)
    display,           \* text of the Status cell of each row
    bar,               \* value of the progress bar of each row
    btn,               \* the row still has its Stop button
    poolQueue,         \* runnables waiting in the QThreadPool
    running,           \* runnables occupying a pool thread
    anaPc,             \* position of the AnalysisRunnable
    anaEv,             \* its signals not yet handled by the GUI thread
    btn_analyze,       \* Analyze button enabled
    action_bar,        \* action bar (Add to Queue) visible
    current_meta,      \* MainWindow._current_meta is set
    url_input,         \* text of the URL field
    inprogress,        \* <output_path>/.inprogress exists
    temp_dir,          \* the sandbox directory of each job exists
    rm_failed,         \* shutil.rmtree(temp_dir, ignore_errors=True) failed
    temp,              \* names of the regular files in each sandbox
    dest,              \* destination directory: name -> content owner
    listed,            \* _finalize_move: the entries iterdir() found
    todo,              \* _finalize_move: entries of iterdir() not yet visited
    cur,               \* _finalize_move: entry being moved
    used,              \* analyses, writes, hook calls, faults and clicks so far
    retried,           \* outcome of a second call of _finalize_move, per job
    widgets,           \* InspectorPanel: the values of its input widgets
    job_cfg,           \* the DownloadJobConfig built from the widgets, if any
    ydl_opts,          \* what _build_ydl_opts returned for it, if called
    info_date          \* info_dict['upload_date'] as the 'finished' hook left it

vars == <<scenario, pc, config, is_cancelled, aborted, failed, injected, evq,
          sig_log, early,
          active_runnables, display, bar, btn, poolQueue, running, anaPc,
          anaEv, btn_analyze, action_bar, current_meta, url_input,
          inprogress, temp_dir, rm_failed, temp, dest, listed, todo, cur, used,
          retried, widgets, job_cfg, ydl_opts, info_date>>

jobVars == <<pc, config, is_cancelled, aborted, evq, sig_log, early>>
ydlVars == <<failed, injected>>
uiVars == <<active_runnables, display, bar, btn>>
anaVars == <<anaPc, anaEv, btn_analyze, action_bar, current_meta, url_input>>
fsVars == <<inprogress, temp_dir, rm_failed, temp, dest, listed, todo, cur>>
poolVars == <<poolQueue, running>>
\* state of the direct calls of single functions
optVars == <<widgets, job_cfg, ydl_opts, info_date>>
callVars == <<retried, widgets, job_cfg, ydl_opts, info_date>>

\* ------------------------------------------------------------ path helpers
\* A path below output_path is the sequence of its components.
\* texts of the filename field (in_filename), split at the path separator
FilenameTexts == { <<>>, <<"..", "..", "song">> }

\* InspectorPanel.get_config_delta: self.in_filename.text().strip() or "output"
CustomFilename(text) == IF text = <<>> THEN <<"output">> ELSE text

\* DownloadRunnable.__init__: output_path / ".inprogress" / job_id
TempDirPath == <<".inprogress", "JOBID">>

RECURSIVE Resolve(_, _)
\* What the file system makes of a relative path: ".." leaves a directory.
Resolve(done, rest) ==
    IF rest = <<>> THEN done
    ELSE IF Head(rest) = ".."
         THEN Resolve(IF done = <<>> THEN <<>> ELSE SubSeq(done, 1, Len(done) - 1),
                      Tail(rest))
         ELSE Resolve(Append(done, Head(rest)), Tail(rest))

\* _build_ydl_opts: outtmpl = temp_dir / f"{custom_filename}.%(ext)s";
\* the directory the extractor writes the job's files into.
OutDir(custom_filename) ==
    Resolve(<<>>, TempDirPath \o SubSeq(custom_filename, 1, Len(custom_filename) - 1))

\* ------------------------------------------------------------------ URLs
\* A URL text as the parts YtDlpService.URL_REGEX looks at.
GoodUrl == [scheme |-> "https://", host |-> "youtu.be", path |-> "x"]
BadUrl == [scheme |-> "ftp://", host |-> "youtu.be", path |-> "x"]
EmptyUrl == [scheme |-> "", host |-> "", path |-> ""]

\* YtDlpService.validate_url
validate_url(u) ==
    /\ u.scheme \in {"", "http://", "https://"}
    /\ u.host \in {"youtube.com", "youtu.be", "music.youtube.com", "vimeo.com",
                   "soundcloud.com"}
    /\ u.path # ""

\* ---------------------------------------------------------------- signals
StatusEv(msg) == [k |-> "status", msg |-> msg, pct |-> 0]
ProgressEv(pct, speed) == [k |-> "progress", msg |-> speed, pct |-> pct]
FinishedEv == [k |-> "finished", msg |-> "", pct |-> 0]
ErrorEv(msg) == [k |-> "error", msg |-> msg, pct |-> 0]

\* signals.X.emit(...) from the worker thread: queued to the GUI thread.
Emit(j, evs) ==
    /\ scenario.lag = 0 \/ Len(evq[j]) < scenario.lag
    /\ evq' = [evq EXCEPT ![j] = @ \o evs]
    /\ sig_log' = [sig_log EXCEPT ![j] = @ \o evs]

\* raw '_percent_str' payloads of the extractor's 'downloading' callbacks
PercentStrs == {"60.0%", "N/A"}

\* _progress_hook: float(p) after replace('%', ''), 0.0 on ValueError
ParsePercent(p) == IF p = "60.0%" THEN 60 ELSE 0

NoConfig == [url |-> EmptyUrl, custom_filename |-> <<>>]

\* the terminal outcome a signal reports, "" for the others
Outcome(e) ==
    IF e.k = "finished" THEN "Completed"
    ELSE IF e.k = "error" THEN "Failed"
    ELSE IF e.k = "status" /\ e.msg = "Cancelled" THEN "Cancelled"
    ELSE ""

IsTerminal(e) == Outcome(e) # ""

\* the terminal outcomes job j has reported so far, in order
Term(j) ==
    LET sel == SelectSeq(sig_log[j], IsTerminal)
    IN [i \in 1..Len(sel) |-> Outcome(sel[i])]

\* ------------------------------------------------------ inspector panel
\* items of the combo boxes, values of the spin box and texts of the date
\* field (a text is the sequence of its characters)
AudioContainers == <<"mp3", "flac", "wav", "m4a", "opus">>
VideoContainers == <<"mp4", "mkv", "webm">>
Bitrates == {"320", "192", "128"}
SampleRates == {0, 44100}
Qualities == {"Best Available", "4K", "2K", "1080p", "720p", "480p"}
VCodecs == {"Best", "H264"}
ACodecs == {"Best", "AAC"}
DateTexts ==
    { <<>>,
      <<"2", "0", "1", "9">>,
      <<"2", "0", "1", "9", "-", "0", "5", "-", "0", "3">>,
      <<"2", "0", "1", "9", "/", "0", "5", "/", "0", "3">>,
      <<"2", "0", "1", "9", "-", "0", "5">> }

\* InspectorPanel._on_container_changed
on_container_changed(w, fmt) ==
    [w EXCEPT !.abitrate_enabled = fmt \notin {"flac", "wav"}]

\* InspectorPanel._update_ui_mode: the container list is refilled, its first
\* item becomes current, and _on_container_changed is called with it
update_ui_mode(w) ==
    LET first == IF w.rb_video THEN VideoContainers[1] ELSE AudioContainers[1]
    IN on_container_changed([w EXCEPT !.cb_container = first], first)

\* InspectorPanel._init_ui: Audio Only checked, first items current,
\* Embed Metadata and Embed Thumbnail checked, then _update_ui_mode()
InitialWidgets ==
    update_ui_mode(
        [rb_video |-> FALSE, cb_container |-> "", abitrate_enabled |-> TRUE,
         cb_abitrate |-> "320", sb_asr |-> 0, cb_quality |-> "Best Available",
         cb_vcodec |-> "Best", cb_acodec |-> "Best", in_date |-> <<>>,
         chk_meta |-> TRUE, chk_thumb |-> TRUE, chk_subs |-> FALSE,
         chk_norm |-> FALSE])

\* str.lower() on the texts of the codec combo boxes
Lower(t) ==
    CASE t = "Best" -> "best"
      [] t = "H264" -> "h264"
      [] t = "AAC" -> "aac"
      [] OTHER -> t

\* get_config_delta that reads the bitrate box whether enabled or not
get_config_delta_any_bitrate(w) ==
    [media_type |-> IF w.rb_video THEN "VIDEO" ELSE "AUDIO",
     format_container |-> w.cb_container,
     video_codec |-> Lower(w.cb_vcodec),
     audio_codec |-> Lower(w.cb_acodec),
     quality_preset |-> w.cb_quality,
     audio_bitrate |-> w.cb_abitrate,
     audio_sample_rate |-> w.sb_asr,
     meta_date |-> w.in_date,
     embed_meta |-> w.chk_meta,
     embed_thumb |-> w.chk_thumb,
     embed_subs |-> w.chk_subs,
     norm_audio |-> w.chk_norm]

\* InspectorPanel.get_config_delta (the fields the options depend on)
get_config_delta(w) ==
    [media_type |-> IF w.rb_video THEN "VIDEO" ELSE "AUDIO",
     format_container |-> w.cb_container,
     video_codec |-> Lower(w.cb_vcodec),
     audio_codec |-> Lower(w.cb_acodec),
     quality_preset |-> w.cb_quality,
     audio_bitrate |-> IF w.abitrate_enabled THEN w.cb_abitrate ELSE "0",
     audio_sample_rate |-> w.sb_asr,
     meta_date |-> w.in_date,
     embed_meta |-> w.chk_meta,
     embed_thumb |-> w.chk_thumb,
     embed_subs |-> w.chk_subs,
     norm_audio |-> w.chk_norm]

\* MainWindow.queue_download: the DownloadJobConfig built from the delta
JobConfig(w) ==
    LET data == get_config_delta(w) IN
    [media_type |-> data.media_type,
     format_container |-> data.format_container,
     audio_codec |-> data.audio_codec,
     video_codec |-> data.video_codec,
     quality_preset |-> data.quality_preset,
     audio_sample_rate |-> data.audio_sample_rate,
     audio_bitrate |-> data.audio_bitrate,
     meta_date |-> data.meta_date,
     embed_metadata |-> data.embed_meta,
     embed_thumbnail |-> data.embed_thumb,
     embed_subs |-> data.embed_subs,
     normalize_audio |-> data.norm_audio]

\* ------------------------------------------------------- _build_ydl_opts
\* one element of a format expression: a selector or a filter [f v]
Tok(f, v) == [f |-> f, v |-> v]

\* res_map.get(quality_preset): the height, 0 for None
TargetHeight(q) ==
    CASE q = "4K" -> 2160
      [] q = "2K" -> 1440
      [] q = "1080p" -> 1080
      [] q = "720p" -> 720
      [] q = "480p" -> 480
      [] OTHER -> 0

\* res_filter = f"[height<={target_h}]" if target_h else ""
ResFilter(c) ==
    LET target_h == TargetHeight(c.quality_preset)
    IN IF target_h # 0 THEN <<Tok("height<=", ToString(target_h))>> ELSE <<>>

\* v_codec_map.get(video_codec, video_codec)
VCodecPrefix(vc) == IF vc = "h264" THEN "avc" ELSE IF vc = "av1" THEN "av01" ELSE vc

\* VideoFormat whose single-stream fallback has no height filter
VideoFormatBareFallback(c) ==
    [video |-> <<Tok("bestvideo", "")>> \o ResFilter(c)
                   \o IF c.video_codec # "best"
                      THEN <<Tok("vcodec^=", VCodecPrefix(c.video_codec))>> ELSE <<>>,
     audio |-> <<Tok("bestaudio", "")>>
                   \o IF c.audio_codec # "best"
                      THEN <<Tok("acodec^=", c.audio_codec)>> ELSE <<>>,
     fallback |-> <<Tok("best", "")>>]

\* opts['format'] of a video job: f"{v_fmt}+{a_fmt}/best{res_filter}"
VideoFormat(c) ==
    [video |-> <<Tok("bestvideo", "")>> \o ResFilter(c)
                   \o IF c.video_codec # "best"
                      THEN <<Tok("vcodec^=", VCodecPrefix(c.video_codec))>> ELSE <<>>,
     audio |-> <<Tok("bestaudio", "")>>
                   \o IF c.audio_codec # "best"
                      THEN <<Tok("acodec^=", c.audio_codec)>> ELSE <<>>,
     fallback |-> <<Tok("best", "")>> \o ResFilter(c)]

\* opts['format'] of an audio job: 'bestaudio/best'
AudioFormat ==
    [video |-> <<>>, audio |-> <<Tok("bestaudio", "")>>, fallback |-> <<Tok("best", "")>>]

\* ExtractAudio that passes audio_bitrate as the quality whatever its value
ExtractAudioQualityAlways(c) ==
    [key |-> "FFmpegExtractAudio",
     preferredcodec |-> c.format_container,
     preferredquality |-> c.audio_bitrate]

\* the FFmpegExtractAudio post-processor of an audio job
ExtractAudio(c) ==
    [key |-> "FFmpegExtractAudio",
     preferredcodec |-> c.format_container,
     preferredquality |-> IF c.audio_bitrate # "0" THEN c.audio_bitrate ELSE "None"]

\* ExtractAudioArgs that tests audio_sample_rate >= 0
ExtractAudioArgsAlways(c) ==
    (IF c.audio_sample_rate >= 0
     THEN <<"-ar", ToString(c.audio_sample_rate)>> ELSE <<>>)
    \o (IF c.normalize_audio THEN <<"-af", "loudnorm=I=-14:TP=-1.5:LRA=11">> ELSE <<>>)

\* postprocessor_args['FFmpegExtractAudio'] of an audio job
ExtractAudioArgs(c) ==
    (IF c.audio_sample_rate > 0
     THEN <<"-ar", ToString(c.audio_sample_rate)>> ELSE <<>>)
    \o (IF c.normalize_audio THEN <<"-af", "loudnorm=I=-14:TP=-1.5:LRA=11">> ELSE <<>>)

\* the opts dictionary with the given list of post-processors
YdlOpts(c, pps) ==
    LET audio == c.media_type = "AUDIO" IN
    [format |-> IF audio THEN AudioFormat ELSE VideoFormat(c),
     merge_output_format |-> IF audio THEN "None" ELSE c.format_container,
     writethumbnail |-> c.embed_thumbnail,
     addmetadata |-> c.embed_metadata,
     writesubtitles |-> c.embed_subs,
     postprocessors |-> pps,
     postprocessor_args |-> IF audio THEN ExtractAudioArgs(c) ELSE <<>>]

\* opts['postprocessors'].append of the FFmpegMetadata and EmbedThumbnail steps
MetadataStep(c) ==
    IF c.embed_metadata
    THEN <<[key |-> "FFmpegMetadata", add_chapters |-> TRUE, add_metadata |-> TRUE]>>
    ELSE <<>>

ThumbnailStep(c) == IF c.embed_thumbnail THEN <<[key |-> "EmbedThumbnail"]>> ELSE <<>>

\* build_ydl_opts that appends the thumbnail step before the metadata step
build_ydl_opts_thumbnail_first(c) ==
    YdlOpts(c, (IF c.media_type = "AUDIO" THEN <<ExtractAudio(c)>> ELSE <<>>)
               \o ThumbnailStep(c) \o MetadataStep(c))

\* DownloadRunnable._build_ydl_opts (format, option flags, post-processors
\* and their arguments)
build_ydl_opts(c) ==
    YdlOpts(c, (IF c.media_type = "AUDIO" THEN <<ExtractAudio(c)>> ELSE <<>>)
               \o MetadataStep(c) \o ThumbnailStep(c))

\* ------------------------------------------------------- date override
NoDate == [called |-> FALSE, written |-> FALSE, val |-> <<>>]

IsSeparator(ch) == ch \in {"-", "/"}
NotSeparator(ch) == ~IsSeparator(ch)

\* _progress_hook: meta_date.replace('-', '').replace('/', ''), "0101"
\* appended when four characters are left
clean_date(meta_date) ==
    LET clean == SelectSeq(meta_date, NotSeparator)
    IN IF Len(clean) = 4 THEN clean \o <<"0", "1", "0", "1">> ELSE clean

\* ------------------------------------------------------------- scenarios
\* What the user types and how often the environment interferes.
MainScenario ==
    [jobs |-> MaxJobs, texts |-> FilenameTexts, urls |-> {GoodUrl},
     pre |-> {NoFile, PreExisting}, analyses |-> MaxJobs, writes |-> MaxFiles,
     hooks |-> MaxHooks, faults |-> MaxFaults, clicks |-> MaxClicks,
     lag |-> 0, threads |-> MAX_CONCURRENT_DOWNLOADS]

\* Admission by the pool: more jobs than pool threads (the spec's scenario
\* "two jobs, bound 1"), and a GUI thread that is at most SchedLag signals
\* behind each job.
SchedScenario ==
    [jobs |-> SchedJobs, texts |-> {<<>>}, urls |-> {GoodUrl},
     pre |-> {PreExisting}, analyses |-> SchedJobs, writes |-> SchedEvents,
     hooks |-> SchedEvents, faults |-> SchedEvents, clicks |-> SchedEvents,
     lag |-> SchedLag, threads |-> SchedThreads]

\* One job, every kind of event at most SmallEvents times, and a user who
\* may also type a URL that does not validate.
SmallScenario ==
    [jobs |-> MaxJobs, texts |-> {<<>>}, urls |-> {GoodUrl, BadUrl},
     pre |-> {PreExisting}, analyses |-> MaxJobs, writes |-> SmallEvents,
     hooks |-> SmallEvents, faults |-> SmallEvents, clicks |-> SmallEvents,
     lag |-> 0, threads |-> MAX_CONCURRENT_DOWNLOADS]

\* Two jobs with the same output directory and threads for both, so that
\* their _finalize_move calls interleave; nothing in the environment fails.
RaceScenario ==
    [jobs |-> SchedJobs, texts |-> {<<>>}, urls |-> {GoodUrl},
     pre |-> {PreExisting}, analyses |-> SchedJobs, writes |-> MaxFiles,
     hooks |-> 0, faults |-> 0, clicks |-> SchedEvents,
     lag |-> SchedLag, threads |-> MAX_CONCURRENT_DOWNLOADS]

\* Two jobs on a pool of SchedThreads threads, as in SchedScenario, but the
\* progress hook is only called after a cancel.
LiveScenario ==
    [jobs |-> SchedJobs, texts |-> {<<>>}, urls |-> {GoodUrl},
     pre |-> {PreExisting}, analyses |-> SchedJobs, writes |-> SchedEvents,
     hooks |-> 0, faults |-> SchedEvents, clicks |-> SchedEvents,
     lag |-> SchedLag, threads |-> SchedThreads]

\* ------------------------------------------------------------------- Init
InitWith(sc) ==
    /\ scenario = sc
    /\ pc = [j \in Jobs |-> "none"]
    /\ config = [j \in Jobs |-> NoConfig]
    /\ is_cancelled = [j \in Jobs |-> FALSE]
    /\ aborted = [j \in Jobs |-> FALSE]
    /\ failed = [j \in Jobs |-> FALSE]
    /\ injected = [j \in Jobs |-> FALSE]
    /\ evq = [j \in Jobs |-> <<>>]
    /\ sig_log = [j \in Jobs |-> <<>>]
    /\ early = [j \in Jobs |-> FALSE]
    /\ active_runnables = {}
    /\ display = [j \in Jobs |-> ""]
    /\ bar = [j \in Jobs |-> 0]
    /\ btn = [j \in Jobs |-> FALSE]
    /\ poolQueue = <<>>
    /\ running = {}
    /\ anaPc = "idle"
    /\ anaEv = <<>>
    /\ btn_analyze = TRUE
    /\ action_bar = FALSE
    /\ current_meta = FALSE
    /\ url_input = EmptyUrl
    /\ inprogress = FALSE
    /\ temp_dir = [j \in Jobs |-> FALSE]
    /\ rm_failed = [j \in Jobs |-> FALSE]
    /\ temp = [j \in Jobs |-> {}]
    /\ dest \in [Names -> sc.pre]
    /\ listed = [j \in Jobs |-> {}]
    /\ todo = [j \in Jobs |-> {}]
    /\ cur = [j \in Jobs |-> 0]
    /\ used = [analyses |-> 0, writes |-> 0, hooks |-> 0, faults |-> 0, clicks |-> 0]
    /\ retried = [j \in Jobs |-> "no"]
    /\ widgets = InitialWidgets
    /\ job_cfg = <<>>
    /\ ydl_opts = <<>>
    /\ info_date = NoDate

Init == InitWith(MainScenario)

InitSched == InitWith(SchedScenario)

InitSmall == InitWith(SmallScenario)

InitRace == InitWith(RaceScenario)

InitLive == InitWith(LiveScenario)

\* ------------------------------------------------------------ GUI thread
\* the user types a URL into the URL field
EditUrl(u) ==
    /\ url_input # u
    /\ url_input' = u
    /\ UNCHANGED <<scenario, callVars, ydlVars, jobVars, uiVars, fsVars, poolVars, anaPc, anaEv,
                   btn_analyze, action_bar, current_meta, used>>

\* QThreadPool.start(runnable)
PoolStart(id) == poolQueue' = Append(poolQueue, id)

\* MainWindow.start_analysis
start_analysis ==
    /\ btn_analyze
    /\ IF url_input = EmptyUrl \/ ~validate_url(url_input)
       THEN UNCHANGED <<btn_analyze, anaPc, poolQueue, used>>
       ELSE /\ used.analyses < scenario.analyses
            /\ used' = [used EXCEPT !.analyses = @ + 1]
            /\ btn_analyze' = FALSE
            /\ anaPc' = "queued"
            /\ PoolStart(AnalysisId)
    /\ UNCHANGED <<scenario, callVars, ydlVars, jobVars, uiVars, fsVars, running, anaEv, action_bar,
                   current_meta, url_input>>

\* AnalysisStart on a thread of its own, outside the bound of the pool
AnalysisStartOwnThread ==
    /\ poolQueue # <<>> /\ Head(poolQueue) = AnalysisId
    /\ poolQueue' = Tail(poolQueue)
    /\ running' = running \cup {AnalysisId}
    /\ anaPc' = "running"
    /\ UNCHANGED <<scenario, callVars, ydlVars, jobVars, uiVars, fsVars, anaEv, btn_analyze, action_bar,
                   current_meta, url_input, used>>

\* the pool gives the AnalysisRunnable a thread
AnalysisStart ==
    /\ poolQueue # <<>> /\ Head(poolQueue) = AnalysisId
    /\ Cardinality(running) < scenario.threads
    /\ poolQueue' = Tail(poolQueue)
    /\ running' = running \cup {AnalysisId}
    /\ anaPc' = "running"
    /\ UNCHANGED <<scenario, callVars, ydlVars, jobVars, uiVars, fsVars, anaEv, btn_analyze, action_bar,
                   current_meta, url_input, used>>

\* AnalysisRunnable.run: result or error, then finished
AnalysisRun(ok) ==
    /\ anaPc = "running"
    /\ IF ok THEN UNCHANGED used
       ELSE /\ used.faults < scenario.faults
            /\ used' = [used EXCEPT !.faults = @ + 1]
    /\ anaEv' = anaEv \o <<IF ok THEN "result" ELSE "error", "finished">>
    /\ anaPc' = "idle"
    /\ running' = running \ {AnalysisId}
    /\ UNCHANGED <<scenario, callVars, ydlVars, jobVars, uiVars, fsVars, poolQueue, btn_analyze,
                   action_bar, current_meta, url_input>>

\* on_analysis_success / on_analysis_error / the finished lambdas
AnalysisDeliver ==
    /\ anaEv # <<>>
    /\ anaEv' = Tail(anaEv)
    /\ CASE Head(anaEv) = "result" ->
              /\ current_meta' = TRUE
              /\ action_bar' = TRUE
              /\ UNCHANGED btn_analyze
         [] Head(anaEv) = "error" ->
              /\ action_bar' = FALSE
              /\ UNCHANGED <<current_meta, btn_analyze>>
         [] OTHER ->
              /\ btn_analyze' = TRUE
              /\ UNCHANGED <<current_meta, action_bar>>
    /\ UNCHANGED <<scenario, callVars, ydlVars, jobVars, uiVars, fsVars, poolVars, anaPc, url_input, used>>

NextJob == Cardinality({j \in Jobs : pc[j] # "none"}) + 1

\* MainWindow._spawn_download with add_table_row
SpawnDownload(j) ==
    /\ pc' = [pc EXCEPT ![j] = "queued"]
    /\ active_runnables' = active_runnables \cup {j}
    /\ display' = [display EXCEPT ![j] = "Queued"]
    /\ bar' = [bar EXCEPT ![j] = 0]
    /\ btn' = [btn EXCEPT ![j] = TRUE]
    /\ PoolStart(j)

\* MainWindow.queue_download
queue_download(text) ==
    /\ action_bar
    /\ current_meta
    /\ NextJob <= scenario.jobs
    /\ config' = [config EXCEPT ![NextJob] =
                     [url |-> url_input, custom_filename |-> CustomFilename(text)]]
    /\ SpawnDownload(NextJob)
    /\ action_bar' = FALSE
    /\ url_input' = EmptyUrl
    /\ UNCHANGED <<scenario, callVars, ydlVars, is_cancelled, aborted, evq, sig_log, early,
                   fsVars, running, anaPc, anaEv, btn_analyze, current_meta, used>>

\* MainWindow.cancel_job with DownloadRunnable.cancel, from the row's Stop button
cancel_job(j) ==
    /\ btn[j]
    /\ used.clicks < scenario.clicks
    /\ used' = [used EXCEPT !.clicks = @ + 1]
    /\ IF j \in active_runnables
       THEN /\ is_cancelled' = [is_cancelled EXCEPT ![j] = TRUE]
            /\ early' = [early EXCEPT ![j] = @ \/ pc[j] \in {"queued", "init"}]
            /\ display' = [display EXCEPT ![j] = "Stopping..."]
       ELSE UNCHANGED <<is_cancelled, early, display>>
    /\ UNCHANGED <<scenario, callVars, ydlVars, pc, config, aborted, evq, sig_log,
                   active_runnables, bar, btn, fsVars, poolVars, anaVars>>

\* MainWindow._cleanup_job
CleanupJob(j, status_text) ==
    /\ display' = [display EXCEPT ![j] = status_text]
    /\ bar' = [bar EXCEPT ![j] = IF status_text = "Done" THEN 100 ELSE @]
    /\ btn' = [btn EXCEPT ![j] = FALSE]
    /\ active_runnables' = active_runnables \ {j}

\* the GUI thread handles the next queued signal of job j:
\* update_status, update_progress, on_job_finished or on_job_error
Deliver(j) ==
    /\ evq[j] # <<>>
    /\ evq' = [evq EXCEPT ![j] = Tail(@)]
    /\ LET e == Head(evq[j]) IN
       CASE e.k = "status" ->
              /\ display' = [display EXCEPT ![j] = e.msg]
              /\ UNCHANGED <<bar, btn, active_runnables>>
         [] e.k = "progress" ->
              /\ bar' = [bar EXCEPT ![j] = e.pct]
              /\ display' = [display EXCEPT ![j] = "Speed"]
              /\ UNCHANGED <<btn, active_runnables>>
         [] e.k = "finished" -> CleanupJob(j, "Done")
         [] OTHER -> CleanupJob(j, "Error")
    /\ UNCHANGED <<scenario, callVars, ydlVars, pc, config, is_cancelled, aborted, sig_log,
                   early, fsVars, poolVars, anaVars, used>>

\* --------------------------------------------------------- worker threads
\* RunStart in a pool that admits a runnable whatever the number of busy threads
RunStartUnbounded(j) ==
    /\ pc[j] = "queued"
    /\ poolQueue # <<>> /\ Head(poolQueue) = j
    /\ poolQueue' = Tail(poolQueue)
    /\ running' = running \cup {j}
    /\ pc' = [pc EXCEPT ![j] = "init"]
    /\ Emit(j, <<StatusEv("Initializing...")>>)
    /\ UNCHANGED <<scenario, callVars, ydlVars, config, is_cancelled, aborted, early, uiVars,
                   fsVars, anaVars, used>>

\* the pool gives the DownloadRunnable a thread;
\* run begins: status "Initializing..."
RunStart(j) ==
    /\ pc[j] = "queued"
    /\ poolQueue # <<>> /\ Head(poolQueue) = j
    /\ Cardinality(running) < scenario.threads
    /\ poolQueue' = Tail(poolQueue)
    /\ running' = running \cup {j}
    /\ pc' = [pc EXCEPT ![j] = "init"]
    /\ Emit(j, <<StatusEv("Initializing...")>>)
    /\ UNCHANGED <<scenario, callVars, ydlVars, config, is_cancelled, aborted, early, uiVars,
                   fsVars, anaVars, used>>

\* run: _build_ydl_opts (creates the sandbox; mkdir may raise), the
\* YoutubeDL context, status "Downloading..."
RunBuild(j, ok) ==
    /\ pc[j] = "init"
    /\ IF ok
       THEN /\ inprogress' = TRUE
            /\ temp_dir' = [temp_dir EXCEPT ![j] = TRUE]
            /\ Emit(j, <<StatusEv("Downloading...")>>)
            /\ pc' = [pc EXCEPT ![j] = "dl"]
            /\ UNCHANGED used
       ELSE /\ used.faults < scenario.faults
            /\ used' = [used EXCEPT !.faults = @ + 1]
            /\ pc' = [pc EXCEPT ![j] = "exc"]
            /\ UNCHANGED <<inprogress, temp_dir, evq, sig_log>>
    /\ UNCHANGED <<scenario, callVars, ydlVars, config, is_cancelled, aborted, early, uiVars,
                   poolVars, anaVars, rm_failed, temp, dest, listed, todo, cur>>

\* the extractor writes a file of the job where outtmpl points
ExtractorWrite(j, n) ==
    /\ pc[j] = "dl"
    /\ used.writes < scenario.writes
    /\ used' = [used EXCEPT !.writes = @ + 1]
    /\ LET dir == OutDir(config[j].custom_filename) IN
       IF dir = TempDirPath
       THEN /\ n \notin temp[j]
            /\ temp' = [temp EXCEPT ![j] = @ \cup {n}]
            /\ UNCHANGED dest
       ELSE /\ dir = <<>>
            /\ dest[n] # j
            /\ dest' = [dest EXCEPT ![n] = j]
            /\ UNCHANGED temp
    /\ UNCHANGED <<scenario, callVars, ydlVars, jobVars, uiVars, poolVars, anaVars, inprogress, temp_dir,
                   rm_failed, listed, todo, cur>>

\* payloads the extractor hands to the progress hook
Payloads ==
    {[status |-> "downloading", percent_str |-> p] : p \in PercentStrs}
        \cup {[status |-> "finished", percent_str |-> ""]}

\* what _progress_hook emits for a payload when the job is not cancelled
HookEvents(d) ==
    IF d.status = "downloading"
    THEN <<ProgressEv(ParsePercent(d.percent_str), "speed")>>
    ELSE <<ProgressEv(100, "Processing"), StatusEv("Post-processing...")>>

\* _progress_hook writes the overrides into the payload's info_dict: status
\* 'finished' of a job with embed_metadata (the panel's Embed Metadata box)
Injects(d) == d.status = "finished" /\ widgets.chk_meta

\* progress_hook that reads the cancel flag after its work instead of first
progress_hook_flag_last(j, d) ==
    /\ pc[j] = "dl"
    /\ used.hooks < scenario.hooks
    /\ used' = [used EXCEPT !.hooks = @ + 1]
    /\ Emit(j, HookEvents(d))
    /\ injected' = [injected EXCEPT ![j] = @ \/ Injects(d)]
    /\ aborted' = [aborted EXCEPT ![j] = @ \/ is_cancelled[j]]
    /\ UNCHANGED <<scenario, callVars, failed, pc, config, is_cancelled, early, uiVars,
                   fsVars, poolVars, anaVars>>

\* DownloadRunnable._progress_hook, called by the extractor during download
progress_hook(j, d) ==
    /\ pc[j] = "dl"
    /\ IF is_cancelled[j]
       THEN /\ aborted' = [aborted EXCEPT ![j] = TRUE]
            /\ UNCHANGED <<evq, sig_log, used, injected>>
       ELSE /\ used.hooks < scenario.hooks
            /\ used' = [used EXCEPT !.hooks = @ + 1]
            /\ Emit(j, HookEvents(d))
            /\ injected' = [injected EXCEPT ![j] = @ \/ Injects(d)]
            /\ UNCHANGED aborted
    /\ UNCHANGED <<scenario, callVars, failed, pc, config, is_cancelled, early, uiVars,
                   fsVars, poolVars, anaVars>>

\* ydl.download([url]) ends. It raises, or it returns: after a download that
\* went well, or after an error of the extraction, the transcoding or the
\* tagging that 'ignoreerrors': True made it report and swallow.
DownloadEnds(j, raises) ==
    /\ pc[j] = "dl"
    /\ \E swallowed \in BOOLEAN :
          /\ raises => ~swallowed
          /\ IF raises \/ swallowed
             THEN /\ used.faults < scenario.faults
                  /\ used' = [used EXCEPT !.faults = @ + 1]
                  /\ failed' = [failed EXCEPT ![j] = TRUE]
             ELSE UNCHANGED <<used, failed>>
    /\ pc' = [pc EXCEPT ![j] = IF raises THEN "exc" ELSE "check"]
    /\ UNCHANGED <<scenario, callVars, injected, config, is_cancelled, aborted, evq,
                   sig_log, early, uiVars, fsVars, poolVars, anaVars>>

\* RunCheck without the test of the cancel flag after the download
RunCheckNoFlag(j) ==
    /\ pc[j] = "check"
    /\ IF ~temp_dir[j]
       THEN /\ pc' = [pc EXCEPT ![j] = "exc"]
            /\ UNCHANGED <<listed, todo>>
       ELSE /\ pc' = [pc EXCEPT ![j] = "fin"]
            /\ listed' = [listed EXCEPT ![j] = temp[j]]
            /\ todo' = [todo EXCEPT ![j] = temp[j]]
    /\ UNCHANGED <<scenario, callVars, ydlVars, config, is_cancelled, aborted, evq, sig_log,
                   early, uiVars, poolVars, anaVars, inprogress, temp_dir, rm_failed,
                   temp, dest, cur, used>>

\* run: if self._is_cancelled: raise DownloadError("Cancelled");
\* else _finalize_move begins: dest_dir.mkdir, self._temp_dir.iterdir()
RunCheck(j) ==
    /\ pc[j] = "check"
    /\ IF is_cancelled[j] \/ ~temp_dir[j]
       THEN /\ pc' = [pc EXCEPT ![j] = "exc"]
            /\ UNCHANGED <<listed, todo>>
       ELSE /\ pc' = [pc EXCEPT ![j] = "fin"]
            /\ listed' = [listed EXCEPT ![j] = temp[j]]
            /\ todo' = [todo EXCEPT ![j] = temp[j]]
    /\ UNCHANGED <<scenario, callVars, ydlVars, config, is_cancelled, aborted, evq, sig_log,
                   early, uiVars, poolVars, anaVars, inprogress, temp_dir, rm_failed,
                   temp, dest, cur, used>>

\* _finalize_move: next entry of the loop, target.exists()
FinalizeNext(j, n) ==
    /\ pc[j] = "fin"
    /\ n \in todo[j]
    /\ cur' = [cur EXCEPT ![j] = n]
    /\ pc' = [pc EXCEPT ![j] = IF dest[n] # NoFile THEN "unlink" ELSE "move"]
    /\ UNCHANGED <<scenario, callVars, ydlVars, config, is_cancelled, aborted, evq, sig_log,
                   early, uiVars, poolVars, anaVars, inprogress, temp_dir, rm_failed,
                   temp, dest, listed, todo, used>>

\* _finalize_move: target.unlink(), FileNotFoundError when the target is gone
FinalizeUnlink(j) ==
    /\ pc[j] = "unlink"
    /\ IF dest[cur[j]] = NoFile
       THEN /\ pc' = [pc EXCEPT ![j] = "exc"]
            /\ UNCHANGED dest
       ELSE /\ pc' = [pc EXCEPT ![j] = "move"]
            /\ dest' = [dest EXCEPT ![cur[j]] = NoFile]
    /\ UNCHANGED <<scenario, callVars, ydlVars, config, is_cancelled, aborted, evq, sig_log,
                   early, uiVars, poolVars, anaVars, inprogress, temp_dir, rm_failed,
                   temp, listed, todo, cur, used>>

\* _finalize_move: shutil.move(file_p, target). The move may raise OSError,
\* either with nothing placed or, when it had to copy and could not remove
\* the source, with the copy already at the target.
FinalizeMove(j, ok) ==
    /\ pc[j] = "move"
    /\ IF ok
       THEN /\ dest' = [dest EXCEPT ![cur[j]] = j]
            /\ temp' = [temp EXCEPT ![j] = @ \ {cur[j]}]
            /\ todo' = [todo EXCEPT ![j] = @ \ {cur[j]}]
            /\ cur' = [cur EXCEPT ![j] = 0]
            /\ pc' = [pc EXCEPT ![j] = "fin"]
            /\ UNCHANGED used
       ELSE /\ used.faults < scenario.faults
            /\ used' = [used EXCEPT !.faults = @ + 1]
            /\ pc' = [pc EXCEPT ![j] = "exc"]
            /\ \E copied \in BOOLEAN :
                  dest' = IF copied THEN [dest EXCEPT ![cur[j]] = j] ELSE dest
            /\ UNCHANGED <<temp, todo, cur>>
    /\ UNCHANGED <<scenario, callVars, ydlVars, config, is_cancelled, aborted, evq, sig_log, early,
                   uiVars, poolVars, anaVars, inprogress, temp_dir, rm_failed, listed>>

\* shutil.rmtree(self._temp_dir, ignore_errors=True): removes the sandbox,
\* or fails and says nothing
Rmtree(j, ok) ==
    IF ok \/ ~temp_dir[j]
    THEN /\ temp_dir' = [temp_dir EXCEPT ![j] = FALSE]
         /\ temp' = [temp EXCEPT ![j] = {}]
         /\ UNCHANGED <<rm_failed, used>>
    ELSE /\ used.faults < scenario.faults
         /\ used' = [used EXCEPT !.faults = @ + 1]
         /\ rm_failed' = [rm_failed EXCEPT ![j] = TRUE]
         /\ UNCHANGED <<temp_dir, temp>>

\* run: the signals of the success path
CompleteReport(j) == Emit(j, <<StatusEv("Complete"), FinishedEv>>)

\* _finalize_move: the loop is over, rmtree; run: "Complete" and finished
FinalizeDone(j, ok) ==
    /\ pc[j] = "fin"
    /\ todo[j] = {}
    /\ Rmtree(j, ok)
    /\ CompleteReport(j)
    /\ pc' = [pc EXCEPT ![j] = "done"]
    /\ running' = running \ {j}
    /\ UNCHANGED <<scenario, callVars, ydlVars, config, is_cancelled, aborted, early, uiVars, poolQueue,
                   anaVars, inprogress, dest, listed, todo, cur>>

\* ExceptReport that emits nothing for a cancelled job
ExceptReportSilent(j) ==
    IF is_cancelled[j]
    THEN Emit(j, <<>>)
    ELSE Emit(j, <<ErrorEv("reason")>>)

\* ExceptReport that does not look at the cancel flag
ExceptReportError(j) == Emit(j, <<ErrorEv("reason")>>)

\* ExceptReport with the else lost: the error signal follows "Cancelled"
ExceptReportBoth(j) ==
    IF is_cancelled[j]
    THEN Emit(j, <<StatusEv("Cancelled"), ErrorEv("reason")>>)
    ELSE Emit(j, <<ErrorEv("reason")>>)

\* run: the signals of the except branch
ExceptReport(j) ==
    IF is_cancelled[j]
    THEN Emit(j, <<StatusEv("Cancelled")>>)
    ELSE Emit(j, <<ErrorEv("reason")>>)

\* RunExcept that reports without removing the sandbox
RunExceptNoRmtree(j, ok) ==
    /\ pc[j] = "exc"
    /\ ExceptReport(j)
    /\ pc' = [pc EXCEPT ![j] = "done"]
    /\ running' = running \ {j}
    /\ UNCHANGED <<scenario, callVars, ydlVars, config, is_cancelled, aborted, early, uiVars, poolQueue,
                   anaVars, fsVars, used>>

\* run: except Exception: rmtree, then "Cancelled" or the error signal
RunExcept(j, ok) ==
    /\ pc[j] = "exc"
    /\ Rmtree(j, ok)
    /\ ExceptReport(j)
    /\ pc' = [pc EXCEPT ![j] = "done"]
    /\ running' = running \ {j}
    /\ UNCHANGED <<scenario, callVars, ydlVars, config, is_cancelled, aborted, early, uiVars, poolQueue,
                   anaVars, inprogress, dest, listed, todo, cur>>

\* ------------------------------------------------------------------- Next
Next ==
    \/ \E u \in scenario.urls : EditUrl(u)
    \/ start_analysis
    \/ AnalysisStart
    \/ \E ok \in BOOLEAN : AnalysisRun(ok)
    \/ AnalysisDeliver
    \/ \E t \in scenario.texts : queue_download(t)
    \/ \E j \in Jobs : cancel_job(j)
    \/ \E j \in Jobs : Deliver(j)
    \/ \E j \in Jobs : RunStart(j)
    \/ \E j \in Jobs, ok \in BOOLEAN : RunBuild(j, ok)
    \/ \E j \in Jobs, n \in Names : ExtractorWrite(j, n)
    \/ \E j \in Jobs, d \in Payloads : progress_hook(j, d)
    \/ \E j \in Jobs, r \in BOOLEAN : DownloadEnds(j, r)
    \/ \E j \in Jobs : RunCheck(j)
    \/ \E j \in Jobs, n \in Names : FinalizeNext(j, n)
    \/ \E j \in Jobs : FinalizeUnlink(j)
    \/ \E j \in Jobs, ok \in BOOLEAN : FinalizeMove(j, ok)
    \/ \E j \in Jobs, ok \in BOOLEAN : FinalizeDone(j, ok)
    \/ \E j \in Jobs, ok \in BOOLEAN : RunExcept(j, ok)

Spec == Init /\ [][Next]_vars

SpecSched == InitSched /\ [][Next]_vars

SpecRace == InitRace /\ [][Next]_vars

\* Scheduling. A pool thread that is free takes the runnable at the head of
\* the pool's queue, a runnable that has a thread takes its next step (every
\* call into the extractor and the file system returns or raises), and the
\* GUI thread's event loop handles every queued signal. Nothing obliges the
\* user to type, analyse, queue or cancel.
Fairness ==
    /\ WF_vars(AnalysisStart)
    /\ WF_vars(\E ok \in BOOLEAN : AnalysisRun(ok))
    /\ WF_vars(AnalysisDeliver)
    /\ \A j \in Jobs :
          /\ WF_vars(Deliver(j))
          /\ WF_vars(RunStart(j))
          /\ WF_vars(\E ok \in BOOLEAN : RunBuild(j, ok))
          /\ WF_vars(\E r \in BOOLEAN : DownloadEnds(j, r))
          /\ WF_vars(RunCheck(j))
          /\ WF_vars(\E n \in Names : FinalizeNext(j, n))
          /\ WF_vars(FinalizeUnlink(j))
          /\ WF_vars(\E ok \in BOOLEAN : FinalizeMove(j, ok))
          /\ WF_vars(\E ok \in BOOLEAN : FinalizeDone(j, ok))
          /\ WF_vars(\E ok \in BOOLEAN : RunExcept(j, ok))

SpecLive == InitLive /\ [][Next]_vars /\ Fairness

\* the user may edit the URL field to anything between analysis and queueing
SpecUrl == InitSmall /\ [][Next]_vars

\* --------------------------------------------------------- direct calls
\* _finalize_move called once more for a job whose first call returned
\* normally: dest_dir.mkdir(exist_ok=True) changes nothing, iterdir() raises
\* FileNotFoundError when the sandbox is gone, else the loop visits what is
\* left in it (nothing: the first call moved every file) and rmtree follows.
FinalizeAgain(j, ok) ==
    /\ pc[j] = "done"
    /\ Term(j) = <<"Completed">>
    /\ retried[j] = "no"
    /\ temp[j] = {}
    /\ IF ~temp_dir[j]
       THEN /\ retried' = [retried EXCEPT ![j] = "raised"]
            /\ UNCHANGED <<temp_dir, temp, rm_failed, used>>
       ELSE /\ Rmtree(j, ok)
            /\ retried' = [retried EXCEPT ![j] = "returned"]
    /\ UNCHANGED <<scenario, jobVars, ydlVars, uiVars, poolVars, anaVars, inprogress,
                   dest, listed, todo, cur, optVars>>

NextRetry ==
    \/ Next
    \/ \E j \in Jobs, ok \in BOOLEAN : FinalizeAgain(j, ok)

SpecRetry == InitSmall /\ [][NextRetry]_vars

\* ------------------------------------------- from the widgets to the options
progVars == <<scenario, jobVars, ydlVars, uiVars, anaVars, fsVars, poolVars, used,
              retried>>

\* the user changes the inspector's widgets (while the panel is shown) to w
EditWidgets(w) ==
    /\ job_cfg = <<>>
    /\ w # widgets
    /\ widgets' = w
    /\ UNCHANGED <<progVars, job_cfg, ydl_opts, info_date>>

\* rb_video / rb_audio toggled: _update_ui_mode
ToggleMode == EditWidgets(update_ui_mode([widgets EXCEPT !.rb_video = ~@]))

\* cb_container.currentTextChanged: _on_container_changed
SelectContainer(fmt) ==
    /\ \E i \in 1..Len(IF widgets.rb_video THEN VideoContainers ELSE AudioContainers) :
          fmt = (IF widgets.rb_video THEN VideoContainers ELSE AudioContainers)[i]
    /\ EditWidgets(on_container_changed([widgets EXCEPT !.cb_container = fmt], fmt))

\* the audio widgets, shown for Audio Only; the bitrate box only when enabled
SelectBitrate(k) ==
    /\ ~widgets.rb_video /\ widgets.abitrate_enabled
    /\ EditWidgets([widgets EXCEPT !.cb_abitrate = k])

SetSampleRate(r) ==
    /\ ~widgets.rb_video
    /\ EditWidgets([widgets EXCEPT !.sb_asr = r])

ToggleNormalize ==
    /\ ~widgets.rb_video
    /\ EditWidgets([widgets EXCEPT !.chk_norm = ~@])

\* the video widgets, shown for Video + Audio
SelectQuality(q) ==
    /\ widgets.rb_video
    /\ EditWidgets([widgets EXCEPT !.cb_quality = q])

SelectCodecs(vc, ac) ==
    /\ widgets.rb_video
    /\ EditWidgets([widgets EXCEPT !.cb_vcodec = vc, !.cb_acodec = ac])

\* the date field and the Embed Metadata box
EditDate(d) == EditWidgets([widgets EXCEPT !.in_date = d])

ToggleMetadata == EditWidgets([widgets EXCEPT !.chk_meta = ~@])

\* the Embed Thumbnail and Download Subtitles boxes
ToggleThumbnail == EditWidgets([widgets EXCEPT !.chk_thumb = ~@])

ToggleSubs == EditWidgets([widgets EXCEPT !.chk_subs = ~@])

\* queue_download: get_config_delta and the DownloadJobConfig; the panel is hidden
BuildConfig ==
    /\ job_cfg = <<>>
    /\ job_cfg' = <<JobConfig(widgets)>>
    /\ UNCHANGED <<progVars, widgets, ydl_opts, info_date>>

\* run: ydl_opts = self._build_ydl_opts()
BuildOpts ==
    /\ job_cfg # <<>>
    /\ ydl_opts = <<>>
    /\ ydl_opts' = <<build_ydl_opts(job_cfg[1])>>
    /\ UNCHANGED <<progVars, widgets, job_cfg, info_date>>

\* _progress_hook, status 'finished': the date override written to info_dict
\* (when the payload has an info_dict and embed_metadata is set)
HookFinished(has_info) ==
    /\ ydl_opts # <<>>
    /\ ~info_date.called
    /\ LET c == job_cfg[1] IN
       info_date' = IF has_info /\ c.embed_metadata /\ c.meta_date # <<>>
                    THEN [called |-> TRUE, written |-> TRUE, val |-> clean_date(c.meta_date)]
                    ELSE [called |-> TRUE, written |-> FALSE, val |-> <<>>]
    /\ UNCHANGED <<progVars, widgets, job_cfg, ydl_opts>>

NextOpts ==
    \/ ToggleMode
    \/ \E fmt \in {"mp3", "flac", "wav", "m4a", "opus", "mp4", "mkv", "webm"} :
          SelectContainer(fmt)
    \/ \E k \in Bitrates : SelectBitrate(k)
    \/ \E r \in SampleRates : SetSampleRate(r)
    \/ ToggleNormalize
    \/ \E q \in Qualities : SelectQuality(q)
    \/ \E vc \in VCodecs, ac \in ACodecs : SelectCodecs(vc, ac)
    \/ \E d \in DateTexts : EditDate(d)
    \/ ToggleMetadata
    \/ ToggleThumbnail
    \/ ToggleSubs
    \/ BuildConfig
    \/ BuildOpts
    \/ \E has_info \in BOOLEAN : HookFinished(has_info)

SpecOpts == InitSmall /\ [][NextOpts]_vars

TypeOK ==
    /\ pc \in [Jobs -> {"none", "queued", "init", "dl", "check", "fin", "unlink",
                        "move", "exc", "done"}]

\* ----------------------------------------------------------------- claims
\* every signal of job j has been handled and one of them was terminal
TerminalDelivered(j) == Term(j) # <<>> /\ evq[j] = <<>>

\* download jobs that have a pool thread and have not reported a terminal state
Executing == {j \in Jobs : pc[j] \notin {"none", "queued"} /\ Term(j) = <<>>}

\* C1: a job whose Stop button was clicked while it was Queued or
\* Initializing (before "Downloading...") reports no terminal state other
\* than Cancelled, and once run has ended it has reported Cancelled.
C1_EarlyCancelEndsCancelled ==
    \A j \in Jobs :
        early[j] =>
            /\ Term(j) \in {<<>>, <<"Cancelled">>}
            /\ pc[j] = "done" => Term(j) = <<"Cancelled">>

C1_Witness ==
    \E j \in Jobs :
        early[j] /\ ~aborted[j] /\ pc[j] = "done" /\ Term(j) = <<"Cancelled">>

\* C2: a job reports at most one terminal state; when run has ended it has
\* reported exactly one, and before that none; "Complete" is emitted exactly
\* when the job is Completed.
C2_ExactlyOneTerminalReport ==
    \A j \in Jobs :
        /\ Len(Term(j)) <= 1
        /\ pc[j] = "done" <=> Len(Term(j)) = 1
        /\ Cardinality({i \in 1..Len(sig_log[j]) :
                           sig_log[j][i] = StatusEv("Complete")})
              = IF Term(j) = <<"Completed">> THEN 1 ELSE 0

C2_Witness ==
    \E j \in Jobs :
        /\ pc[j] = "done" /\ Term(j) = <<"Completed">>
        /\ is_cancelled[j] /\ used.hooks > 0

\* C3: once the terminal state of a job has been delivered to the GUI
\* thread, the job is no longer in active_runnables.
C3_TerminalJobLeavesRegistry ==
    \A j \in Jobs : TerminalDelivered(j) => j \notin active_runnables

\* C4: once the Status cell of a job shows its terminal status, no step
\* changes that cell.
C4_TerminalStatusIsLast ==
    [][\A j \in Jobs :
          (TerminalDelivered(j) /\ display[j] \in {"Done", "Error", "Cancelled"})
              => display'[j] = display[j]]_vars

\* C5: cancel_job on a job whose terminal state has been delivered changes
\* no cancel flag and no displayed status.
C5_CancelAfterTerminalIsNoOp ==
    [][\A j \in Jobs :
          (TerminalDelivered(j) /\ cancel_job(j))
              => (is_cancelled' = is_cancelled /\ display' = display)]_vars

\* C6: never more download jobs execute than the pool has threads, and a
\* job executes only when fewer than that many jobs submitted before it are
\* still without a terminal state (bound 1: the second job starts only
\* after the first is terminal).
C6_AdmissionBound ==
    /\ Cardinality(Executing) <= scenario.threads
    /\ \A j \in Executing :
          Cardinality({k \in Jobs : k < j /\ pc[k] # "none" /\ Term(k) = <<>>})
              < scenario.threads

C6_Witness ==
    \E j \in Jobs :
        /\ pc[j] = "queued"
        /\ Cardinality(Executing) = scenario.threads
        /\ \E k \in Jobs : k < j /\ pc[k] = "dl"

\* lifecycle position of a reported state; 0 for signals that report none
LifeRank(e) ==
    IF e.k = "error" THEN 7
    ELSE IF e.k # "status" THEN 0
    ELSE IF e.msg = "Initializing..." THEN 2
    ELSE IF e.msg = "Downloading..." THEN 4
    ELSE IF e.msg = "Post-processing..." THEN 5
    ELSE 7

ReportsState(e) == LifeRank(e) > 0

\* C7: the lifecycle states a job reports are strictly forward in the order
\* Initializing, Downloading, PostProcessing, terminal: none is reported twice.
C7_LifecycleStrictlyForward ==
    \A j \in Jobs :
        LET life == SelectSeq(sig_log[j], ReportsState) IN
        \A i \in 1..Len(life) : \A k \in 1..Len(life) :
            i < k => LifeRank(life[i]) < LifeRank(life[k])

\* the custom filename keeps the job's files in its sandbox
Sandboxed(j) == OutDir(config[j].custom_filename) = TempDirPath

\* C8: a sandboxed job that has reported Failed or Cancelled has none of
\* its files in the destination, and one that has reported Completed has
\* left none of them unmoved.
C8_AtomicPublication ==
    \A j \in Jobs :
        (Sandboxed(j) /\ Term(j) # <<>>) =>
            IF Term(j)[1] = "Completed"
            THEN todo[j] = {}
            ELSE \A n \in Names : dest[n] # j

\* C9: a file of a job is in the destination directory only once the job
\* has entered its finalize step.
C9_DestinationOnlyInFinalize ==
    \A j \in Jobs : \A n \in Names :
        dest[n] = j => pc[j] \notin {"queued", "init", "dl", "check"}

\* C10: when a job has reported Failed or Cancelled, run has ended, the
\* sandbox is gone unless its removal failed, and the removal's outcome
\* leaves the report single and Cancelled only for a cancelled job.
C10_CleanupBeforeReport ==
    \A j \in Jobs :
        (Term(j) # <<>> /\ Term(j)[1] \in {"Failed", "Cancelled"}) =>
            /\ pc[j] = "done"
            /\ rm_failed[j] \/ (~temp_dir[j] /\ temp[j] = {})
            /\ Len(Term(j)) = 1
            /\ Term(j)[1] = "Cancelled" => is_cancelled[j]

C10_Witness ==
    \E j \in Jobs : rm_failed[j] /\ temp_dir[j] /\ Term(j) = <<"Cancelled">>

\* C11: once _finalize_move has returned normally (the job is Completed),
\* every file iterdir() found in the sandbox is in the destination with the
\* job's content, and the sandbox directory no longer exists.
C11_FinalizeResult ==
    \A j \in Jobs :
        Term(j) = <<"Completed">> =>
            /\ \A n \in listed[j] : dest[n] = j
            /\ ~temp_dir[j]

\* _finalize_move of job j stopped with an exception at the entry cur[j]
FinalizeRaised(j) == Term(j) # <<>> /\ cur[j] # 0

\* C13: a job whose finalize stopped at a failing move reports Completed
\* when all the files found in its sandbox are in the destination, and
\* Failed otherwise.
C13_MoveFailureOutcome ==
    \A j \in Jobs :
        FinalizeRaised(j) =>
            Term(j)[1] = IF \A n \in listed[j] : dest[n] = j
                         THEN "Completed" ELSE "Failed"

\* C14: once a job is Completed and no job has a sandbox directory,
\* <output_path>/.inprogress no longer exists.
C14_InprogressRemoved ==
    \A j \in Jobs :
        (Term(j) = <<"Completed">> /\ \A k \in Jobs : ~temp_dir[k]) => ~inprogress

\* a progress signal emitted for a raw 'downloading' callback
IsDownloadingProgress(e) == e.k = "progress" /\ e.msg = "speed"

\* C15: the percent values of the progress signals a job emits for
\* 'downloading' callbacks never decrease, in emission order.
C15_PercentNonDecreasing ==
    \A j \in Jobs :
        LET dl == SelectSeq(sig_log[j], IsDownloadingProgress) IN
        \A i \in 1..Len(dl) : \A k \in 1..Len(dl) :
            i < k => dl[i].pct <= dl[k].pct

\* C12: a second call of _finalize_move, after a first call that returned
\* normally, does not raise (and leaves the destination as it was).
C12_FinalizeAgainDoesNotRaise ==
    \A j \in Jobs : retried[j] # "raised"

\* C16: the url of every job that was constructed and submitted passes
\* YtDlpService.validate_url.
C16_SubmittedUrlIsValid ==
    \A j \in Jobs : pc[j] # "none" => validate_url(config[j].url)

\* the options have been built for an audio job with a lossless container
LosslessAudioBuilt ==
    /\ ydl_opts # <<>>
    /\ job_cfg[1].media_type = "AUDIO"
    /\ job_cfg[1].format_container \in {"flac", "wav"}

Ceilings(part) == {part[i].v : i \in {k \in 1..Len(part) : part[k].f = "height<="}}

VideoBuilt == ydl_opts # <<>> /\ job_cfg[1].media_type = "VIDEO"

\* C18: the format expression of a video job has a height ceiling exactly
\* when quality_preset is 4K, 2K, 1080p, 720p or 480p, and then the same
\* single ceiling is on the video selector and on the single-stream
\* fallback (and none on the audio selector).
C18_HeightCeilingIffPreset ==
    VideoBuilt =>
        LET f == ydl_opts[1].format IN
        /\ job_cfg[1].quality_preset \in {"4K", "2K", "1080p", "720p", "480p"}
              <=> Ceilings(f.video) # {}
        /\ Ceilings(f.fallback) = Ceilings(f.video)
        /\ Cardinality(Ceilings(f.video)) <= 1
        /\ Ceilings(f.audio) = {}

C18_Witness ==
    /\ VideoBuilt
    /\ job_cfg[1].quality_preset = "720p"
    /\ Ceilings(ydl_opts[1].format.fallback) = {"720"}

\* the info_dict date is a token of eight digits
IsDigit(ch) == ch \in {"0", "1", "2", "3", "4", "5", "6", "7", "8", "9"}

IsYYYYMMDD(val) == Len(val) = 8 /\ \A i \in 1..Len(val) : IsDigit(val[i])

\* C19: the date the 'finished' hook writes for a non-empty date override
\* is an eight-digit YYYYMMDD token, and for an empty override it writes
\* none.
C19_DateIsYYYYMMDD ==
    /\ info_date.written => IsYYYYMMDD(info_date.val)
    /\ (info_date.called /\ job_cfg[1].meta_date = <<>>) => ~info_date.written

\* '-ar' is among the arguments of the built options
HasResample == \E i \in 1..Len(ydl_opts[1].postprocessor_args) :
                   ydl_opts[1].postprocessor_args[i] = "-ar"

\* C20: options built from a config with audio_sample_rate = 0 have no
\* '-ar' argument, and those of an audio job have it exactly when
\* audio_sample_rate > 0.
C20_ResampleIffRate ==
    ydl_opts # <<>> =>
        /\ job_cfg[1].audio_sample_rate = 0 => ~HasResample
        /\ job_cfg[1].media_type = "AUDIO" =>
              (HasResample <=> job_cfg[1].audio_sample_rate > 0)

C20_Witness ==
    /\ ydl_opts # <<>>
    /\ job_cfg[1].media_type = "AUDIO"
    /\ job_cfg[1].audio_sample_rate = 0
    /\ job_cfg[1].normalize_audio
    /\ ydl_opts[1].postprocessor_args # <<>>

\* the options have been built for an audio job
AudioBuilt == ydl_opts # <<>> /\ job_cfg[1].media_type = "AUDIO"

\* the positions of the post-processors with the given key
StepsOf(key) ==
    {i \in 1..Len(ydl_opts[1].postprocessors) : ydl_opts[1].postprocessors[i].key = key}

\* the loudnorm filter is among the arguments of the extraction step
HasLoudnorm ==
    \E i \in 1..(Len(ydl_opts[1].postprocessor_args) - 1) :
        /\ ydl_opts[1].postprocessor_args[i] = "-af"
        /\ ydl_opts[1].postprocessor_args[i + 1] = "loudnorm=I=-14:TP=-1.5:LRA=11"

C22_CommonStepsIffFlags ==
    ydl_opts # <<>> =>
        LET c == job_cfg[1]
            o == ydl_opts[1]
        IN /\ Cardinality(StepsOf("FFmpegMetadata")) = IF c.embed_metadata THEN 1 ELSE 0
           /\ Cardinality(StepsOf("EmbedThumbnail")) = IF c.embed_thumbnail THEN 1 ELSE 0
           /\ o.addmetadata <=> c.embed_metadata
           /\ o.writethumbnail <=> c.embed_thumbnail
           /\ o.writesubtitles <=> c.embed_subs
           /\ \A e \in StepsOf("FFmpegExtractAudio") :
                 \A m \in StepsOf("FFmpegMetadata") \cup StepsOf("EmbedThumbnail") : e < m
           /\ \A m \in StepsOf("FFmpegMetadata") :
                 \A t \in StepsOf("EmbedThumbnail") : m < t

C22_Witness ==
    /\ AudioBuilt
    /\ job_cfg[1].embed_metadata /\ job_cfg[1].embed_thumbnail /\ job_cfg[1].embed_subs
    /\ Len(ydl_opts[1].postprocessors) = 3
    /\ ydl_opts[1].postprocessors[2].key = "FFmpegMetadata"
    /\ ydl_opts[1].postprocessors[3].key = "EmbedThumbnail"
    /\ ydl_opts[1].writesubtitles

\* C23: the step of run that calls _build_ydl_opts changes nothing in the
\* file system and always returns: neither <output_path>/.inprogress nor
\* any sandbox directory is created by it, and run goes on to the download.
C23_BuildHasNoSideEffect ==
    [][\A j \in Jobs :
          (pc[j] = "init" /\ pc'[j] # "init") =>
              /\ pc'[j] = "dl"
              /\ inprogress' = inprogress
              /\ temp_dir' = temp_dir]_vars

\* C24: a job has reported Completed only if no error ended the extractor's
\* work on its URL; a job whose extraction, transcoding or tagging failed
\* and that was not cancelled ends Failed, with none of its files in the
\* destination.
C24_CompletedOnlyIfSucceeded ==
    \A j \in Jobs :
        /\ Term(j) = <<"Completed">> => ~failed[j]
        /\ (failed[j] /\ ~is_cancelled[j] /\ pc[j] = "done") =>
              /\ Term(j) = <<"Failed">>
              /\ \A n \in Names : dest[n] # j

\* C25: when two jobs have both finalized a file of the same name and no
\* call into the environment has failed, both have reported Completed and
\* the destination file of that name is the file of one of them.
C25_ConcurrentFinalizeBothComplete ==
    \A j, k \in Jobs :
        (/\ j # k
         /\ pc[j] = "done" /\ pc[k] = "done"
         /\ listed[j] \cap listed[k] # {}
         /\ used.faults = 0) =>
            /\ Term(j) = <<"Completed">>
            /\ Term(k) = <<"Completed">>
            /\ \A n \in listed[j] \cap listed[k] : dest[n] \in {j, k}

\* positions of run up to and including the check that follows ydl.download
BeforeFinalize == {"queued", "init", "dl", "check"}

\* C26: a job whose cancel flag is set while run has not passed the check
\* after the download never enters _finalize_move (nothing of it is moved):
\* it goes to the except branch, and a flagged job leaves the except branch
\* reporting Cancelled and nothing else, whether or not a progress hook saw
\* the flag. A _finalize_move that returns is followed by the report
\* Completed, whatever the flag has become after the check.
C26_CancelBeforeReturnEndsCancelled ==
    [][\A j \in Jobs :
          /\ (is_cancelled[j] /\ pc[j] \in BeforeFinalize) =>
                /\ pc'[j] \in BeforeFinalize \cup {"exc"}
                /\ is_cancelled'[j]
                /\ listed'[j] = {}
                /\ Sandboxed(j) => \A n \in Names : dest'[n] # j
          /\ (is_cancelled[j] /\ pc[j] = "exc" /\ pc'[j] = "done") =>
                Term(j)' = <<"Cancelled">>
          /\ (pc[j] = "fin" /\ pc'[j] = "done") => Term(j)' = <<"Completed">>]_vars

C26_Witness ==
    \E j \in Jobs :
        /\ pc[j] = "done" /\ Term(j) = <<"Cancelled">>
        /\ ~early[j] /\ ~aborted[j] /\ ~failed[j]
        /\ used.faults = 0 /\ used.writes > 0
        /\ listed[j] = {}
        /\ Sandboxed(j)
        /\ \A n \in Names : dest[n] # j

\* a signal that only _progress_hook emits
IsHookSignal(e) == e.k = "progress" \/ e = StatusEv("Post-processing...")

\* the signals _progress_hook has emitted for job j
HookOutput(j) == SelectSeq(sig_log[j], IsHookSignal)

\* C27: from the moment the cancel flag of a job is set, no step adds a
\* progress or "Post-processing..." signal of that job and none writes
\* metadata overrides for it: a call of _progress_hook then only raises.
C27_FlaggedHookOnlyRaises ==
    [][\A j \in Jobs :
          is_cancelled[j] =>
              /\ HookOutput(j)' = HookOutput(j)
              /\ injected'[j] = injected[j]]_vars

C27_Witness ==
    \E j \in Jobs :
        /\ is_cancelled[j] /\ aborted[j]
        /\ pc[j] = "dl"
        /\ Len(HookOutput(j)) = 1
        /\ ~injected[j]

\* C28: under fair scheduling every job that has been submitted (queued in
\* the pool) eventually has reported a terminal state, with that signal and
\* every earlier one handled by the GUI thread.
C28_EveryJobTerminates ==
    \A j \in Jobs : (pc[j] # "none") ~> TerminalDelivered(j)

C28_Witness ==
    \E j, k \in Jobs :
        /\ j # k
        /\ TerminalDelivered(j) /\ TerminalDelivered(k)
        /\ early[k] /\ Term(k) = <<"Cancelled">>

\* download jobs whose run is on a pool thread
OnThread == {j \in Jobs : pc[j] \in {"init", "dl", "check", "fin", "unlink", "move", "exc"}}

\* 1 while AnalysisRunnable.run is on a pool thread
AnalysisOnThread == IF anaPc = "running" THEN 1 ELSE 0

\* C29: the download runnables and the analysis runnable that are executing
\* are together never more than the pool has threads, and they are exactly
\* the runnables the one pool has admitted: an analysis queued while every
\* thread runs a download waits, and a running analysis takes a thread from
\* the downloads.
C29_AnalysisSharesPool ==
    /\ Cardinality(OnThread) + AnalysisOnThread <= scenario.threads
    /\ running = OnThread \cup (IF anaPc = "running" THEN {AnalysisId} ELSE {})

C29_Witness ==
    /\ anaPc = "queued"
    /\ Head(poolQueue) = AnalysisId
    /\ Cardinality(OnThread) = scenario.threads
    /\ ~ENABLED AnalysisStart

====
